---- MODULE Spec2Model ----
(***************************************************************************)
(* Word-level orchestration of the Turkish morphological analyzer          *)
(* (zemberek/morphology/turkish_morphology.py) and its result aggregate    *)
(* (zemberek/morphology/analysis/word_analysis.py).                        *)
(*                                                                         *)
(* Strings are sequences of characters, indexed from 1; the Python code    *)
(* indexes from 0, and the operators below keep the code's 0-based         *)
(* arithmetic and convert at the sequence accesses.                        *)
(*                                                                         *)
(* The tokenizer, the rule-based analyzer and the unidentified-token       *)
(* analyzer are collaborators whose code is outside these files: what they *)
(* return is a nondeterministic choice over bounded sets.                  *)
(***************************************************************************)
EXTENDS Integers, Sequences, FiniteSets, TLC

(* ------------------------------ bounds -------------------------------- *)
MaxLen == 3
MaxResults == 2
MaxTokens == 2

(* ------------------------------ strings ------------------------------- *)
APOSTROPHE == "'"
DOT == "."
Alphabet == {"a", "A", APOSTROPHE, DOT}

RECURSIVE SeqsUpTo(_, _)
SeqsUpTo(S, n) ==
    IF n = 0 THEN {<<>>}
    ELSE LET shorter == SeqsUpTo(S, n - 1)
         IN  shorter \cup {Append(s, x) : s \in {t \in shorter : Len(t) = n - 1}, x \in S}

Words == SeqsUpTo(Alphabet, MaxLen)

\* str.find(ch): 0-based index of the first occurrence, -1 when absent
find(word, ch) ==
    IF \E i \in 1..Len(word) : word[i] = ch
    THEN (CHOOSE i \in 1..Len(word) : word[i] = ch /\ \A j \in 1..(i - 1) : word[j] # ch) - 1
    ELSE -1

\* str.replace(ch, ""): every occurrence removed
RECURSIVE remove(_, _)
remove(word, ch) ==
    IF word = <<>> THEN <<>>
    ELSE IF Head(word) = ch THEN remove(Tail(word), ch)
         ELSE <<Head(word)>> \o remove(Tail(word), ch)

\* str.translate(lower_map).lower()
lower(word) == [i \in 1..Len(word) |-> IF word[i] = "A" THEN "a" ELSE word[i]]

\* TurkishAlphabet.normalize_circumflex: circumflexed vowels (written "a^") to
\* plain vowels
normalize_circumflex(word) == [i \in 1..Len(word) |-> IF word[i] = "a^" THEN "a" ELSE word[i]]

\* TextUtil.normalize_apostrophes / TurkishAlphabet.normalize_apostrophe:
\* apostrophe variants (written "%") to the canonical apostrophe
normalize_apostrophes(word) ==
    [i \in 1..Len(word) |-> IF word[i] = "%" THEN APOSTROPHE ELSE word[i]]

contains_apostrophe(word) == \E i \in 1..Len(word) : word[i] = APOSTROPHE

\* TurkishAlphabet.normalize: the standard alphabet normalization
normalize(word) == normalize_apostrophes(lower(word))

normalize_for_analysis(word) ==
    LET s == normalize_circumflex(lower(word))
        stripped == remove(s, DOT)
        no_dot == IF Len(stripped) = 0 THEN s ELSE stripped
    IN  normalize_apostrophes(no_dot)

(* --------------------------- data model -------------------------------- *)
\* Python's None, where a string is expected
None == <<"None">>

\* Lexical items: the unknown marker, a noun root and a verb root
ItemUnknown == [lemma |-> "?", primary_pos |-> "Unknown", unknown |-> TRUE]
ItemNoun == [lemma |-> "a", primary_pos |-> "Noun", unknown |-> FALSE]
ItemVerb == [lemma |-> "a", primary_pos |-> "Verb", unknown |-> FALSE]

\* DictionaryItem.is_unknown
item_is_unknown(item) == item.unknown

\* A SingleAnalysis: the root item, the stem, whether the morpheme sequence
\* holds p3sg, and the part of speech the derivation ends in
SA(item, stem, p3sg, pos) == [item |-> item, stem |-> stem, p3sg |-> p3sg, pos |-> pos]

\* The analyses the analyzers may return
Analyses ==
    { SA(ItemUnknown, <<"a">>, FALSE, "Unknown"),
      SA(ItemNoun, <<"a">>, FALSE, "Noun"),
      SA(ItemNoun, <<"a", "a">>, TRUE, "Verb"),
      SA(ItemVerb, <<"a">>, TRUE, "Noun") }

ParseSeqs == SeqsUpTo(Analyses, MaxResults)

\* SingleAnalysis.is_unknown, .contains_morpheme(p3sg), .get_stem
is_unknown(a) == item_is_unknown(a.item)
contains_p3sg(a) == a.p3sg
get_stem(a) == a.stem

(* --------------------------- WordAnalysis ------------------------------- *)
WordAnalysis(inp, analysis_results, normalized_input) ==
    [inp |-> inp,
     analysis_results |-> analysis_results,
     normalized_input |-> IF normalized_input = None THEN inp ELSE normalized_input,
     index |-> 0]

EMPTY_INPUT_RESULT == WordAnalysis(<<>>, <<>>, None)

\* mutant: the last candidate is looked at, not the first
is_correct_last(self) ==
    /\ Len(self.analysis_results) > 0
    /\ ~is_unknown(self.analysis_results[Len(self.analysis_results)])

is_correct(self) ==
    Len(self.analysis_results) > 0 /\ ~is_unknown(self.analysis_results[1])

\* __iter__: the cursor is a field of the object itself, and self is returned
WordAnalysis_iter(self) == [self EXCEPT !.index = 0]

\* __next__: the object afterwards, and the item returned or StopIteration
WordAnalysis_next(self) ==
    IF self.index < Len(self.analysis_results)
    THEN [self |-> [self EXCEPT !.index = self.index + 1],
          stop |-> FALSE,
          result |-> <<self.analysis_results[self.index + 1]>>]
    ELSE [self |-> self, stop |-> TRUE, result |-> <<>>]

(* ------------------- collaborators and call records --------------------- *)
Str(w) == [type |-> "str", content |-> w]
Token(w) == [type |-> "Token", content |-> w]
NoToken == [type |-> "NoneType", content |-> <<>>]

\* one invocation of a collaborator: what was called, with what, and its answer
Call(fn, arg, ret) == [fn |-> fn, arg |-> arg, ret |-> ret]

\* tokenizer.tokenize(word): any list of at most MaxTokens tokens; a token
\* carries the word or nothing
Tokenize(word) == SeqsUpTo({Token(word), Token(<<>>)}, MaxTokens)

\* outcomes of a call: a returned object (by reference and by value) or an
\* exception, with the collaborator invocations made on the way
NoValue == [inp |-> None, analysis_results |-> <<>>, normalized_input |-> None, index |-> 0]
Returned(ref, value, calls) == [exc |-> "none", ref |-> ref, value |-> value, calls |-> calls]
Raised(exc, calls) == [exc |-> exc, ref |-> "None", value |-> NoValue, calls |-> calls]
After(call, o) == [o EXCEPT !.calls = <<call>> \o o.calls]

(* ------------------------------ state ----------------------------------- *)
VARIABLES
    use_cache,                        \* TurkishMorphology.use_cache
    use_unidentified_token_analyzer,  \* TurkishMorphology.use_unidentified_token_analyzer
    pc,                               \* "ready" before the call, then the method that was called
    word,                             \* the argument of the call
    out,                              \* how the call ended
    obj,                              \* a WordAnalysis object shared by the consumers
    consumers,                        \* each consumer's loop position and what it received
    correct                           \* what is_correct() returned, once called

vars == <<use_cache, use_unidentified_token_analyzer, pc, word, out, obj, consumers, correct>>

(* -------------------------- TurkishMorphology --------------------------- *)
\* Builder's class attributes
Builder_use_dynamic_cache == FALSE
Builder_use_unidentifiedTokenAnalyzer == TRUE

analyze_with_cache(w) == {Raised("NotImplementedError", <<>>)}

\* mutant: a noun, or p3sg, or the stem, is enough to survive
analyze_words_with_apostrophe_or(w) ==
    LET index == find(w, APOSTROPHE)
    IN  IF index > 0 /\ index # Len(w) - 1
        THEN LET stem == normalize(SubSeq(w, 1, index))
                 without_quote == remove(w, APOSTROPHE)
                 keep(p) == \/ p.item.primary_pos = "Noun"
                            \/ (contains_p3sg(p) \/ get_stem(p) = stem)
             IN  { [ret |-> IF Len(no_quotes_parses) = 0 THEN <<>>
                            ELSE SelectSeq(no_quotes_parses, keep),
                    calls |-> <<Call("analyzer.analyze", Str(without_quote), no_quotes_parses)>>]
                   : no_quotes_parses \in ParseSeqs }
        ELSE { [ret |-> <<>>, calls |-> <<>>] }

\* mutant: a trailing apostrophe is not checked for
analyze_words_with_apostrophe_trailing(w) ==
    LET index == find(w, APOSTROPHE)
    IN  IF index > 0
        THEN LET stem == normalize(SubSeq(w, 1, index))
                 without_quote == remove(w, APOSTROPHE)
                 keep(p) == /\ p.item.primary_pos = "Noun"
                            /\ (contains_p3sg(p) \/ get_stem(p) = stem)
             IN  { [ret |-> IF Len(no_quotes_parses) = 0 THEN <<>>
                            ELSE SelectSeq(no_quotes_parses, keep),
                    calls |-> <<Call("analyzer.analyze", Str(without_quote), no_quotes_parses)>>]
                   : no_quotes_parses \in ParseSeqs }
        ELSE { [ret |-> <<>>, calls |-> <<>>] }

\* The outcomes of the splitter: what it returns and the analyzer call it makes
analyze_words_with_apostrophe(w) ==
    LET index == find(w, APOSTROPHE)
    IN  IF index > 0 /\ index # Len(w) - 1
        THEN LET stem == normalize(SubSeq(w, 1, index))
                 without_quote == remove(w, APOSTROPHE)
                 keep(p) == /\ p.item.primary_pos = "Noun"
                            /\ (contains_p3sg(p) \/ get_stem(p) = stem)
             IN  { [ret |-> IF Len(no_quotes_parses) = 0 THEN <<>>
                            ELSE SelectSeq(no_quotes_parses, keep),
                    calls |-> <<Call("analyzer.analyze", Str(without_quote), no_quotes_parses)>>]
                   : no_quotes_parses \in ParseSeqs }
        ELSE { [ret |-> <<>>, calls |-> <<>>] }

\* analyze_without_cache, lines 91-95: the splitter or the rule-based analyzer
first_stage(s) ==
    IF contains_apostrophe(s)
    THEN LET s2 == normalize_apostrophes(s)
         IN  { [s |-> s2, result |-> r.ret,
                calls |-> <<Call("analyze_words_with_apostrophe", Str(s2), r.ret)>> \o r.calls]
               : r \in analyze_words_with_apostrophe(s2) }
    ELSE { [s |-> s, result |-> p, calls |-> <<Call("analyzer.analyze", Str(s), p)>>]
           : p \in ParseSeqs }

\* mutant: the fallback runs whatever the option says
fallback_stage_always(token, st) ==
    IF Len(st.result) = 0
    THEN { [st EXCEPT !.result = u,
                      !.calls = st.calls \o <<Call("unidentified_token_analyzer.analyze", token, u)>>]
           : u \in ParseSeqs }
    ELSE { st }

\* analyze_without_cache, lines 97-98: the fallback
fallback_stage(token, st) ==
    IF Len(st.result) = 0 /\ use_unidentified_token_analyzer
    THEN { [st EXCEPT !.result = u,
                      !.calls = st.calls \o <<Call("unidentified_token_analyzer.analyze", token, u)>>]
           : u \in ParseSeqs }
    ELSE { st }

\* mutant: nothing is dropped
suppress_unknown_never(result) == result

\* analyze_without_cache, lines 100-101: a lone unknown analysis is dropped
suppress_unknown(result) ==
    IF Len(result) = 1 /\ item_is_unknown(result[1].item) THEN <<>> ELSE result

\* analyze_without_cache, the branch taken for a token (lines 85-103)
analyze_token(token) ==
    IF token = NoToken
    THEN { Raised("AttributeError", <<>>) }
    ELSE LET w == token.content
             s == normalize_for_analysis(w)
         IN  IF Len(s) = 0
             THEN { Returned("EMPTY_INPUT_RESULT", EMPTY_INPUT_RESULT, <<>>) }
             ELSE { Returned("new", WordAnalysis(w, suppress_unknown(st.result), st.s), st.calls)
                    : st \in UNION { fallback_stage(token, st1) : st1 \in first_stage(s) } }

\* mutant: the short circuit hands over the normalized word
analyze_without_cache_normalizing(w, token) ==
    IF Len(w) > 0
    THEN UNION { LET call == Call("tokenizer.tokenize", Str(w), tokens)
                 IN  IF Len(tokens) # 1
                     THEN { Returned("new", WordAnalysis(w, <<>>, normalize_for_analysis(w)),
                                     <<call>>) }
                     ELSE { After(call, o) : o \in analyze_token(tokens[1]) }
                 : tokens \in Tokenize(w) }
    ELSE analyze_token(token)

analyze_without_cache(w, token) ==
    IF Len(w) > 0
    THEN UNION { LET call == Call("tokenizer.tokenize", Str(w), tokens)
                 IN  IF Len(tokens) # 1
                     THEN { Returned("new", WordAnalysis(w, <<>>, w), <<call>>) }
                     ELSE { After(call, o) : o \in analyze_token(tokens[1]) }
                 : tokens \in Tokenize(w) }
    ELSE analyze_token(token)

\* mutant: the cache option silently falls back to the uncached path
analyze_silently_uncached(w) == analyze_without_cache(w, NoToken)

analyze(w) ==
    IF use_cache THEN analyze_with_cache(w) ELSE analyze_without_cache(w, NoToken)

(* ------------------------------ actions --------------------------------- *)
NoConsumers == [c \in {} |-> 0]

\* The instance as built from a Builder, and the word analyze is called with
Init ==
    /\ use_cache \in {Builder_use_dynamic_cache, TRUE}
    /\ use_unidentified_token_analyzer \in {Builder_use_unidentifiedTokenAnalyzer, FALSE}
    /\ pc = "ready"
    /\ word \in Words
    /\ out = Raised("none", <<>>)
    /\ obj = NoValue
    /\ consumers = NoConsumers
    /\ correct = <<>>

Analyze ==
    /\ pc = "ready"
    /\ \E o \in analyze(word) : out' = o
    /\ pc' = "analyze"
    /\ UNCHANGED <<use_cache, use_unidentified_token_analyzer, word, obj, consumers, correct>>

\* The splitter called on its own; it returns a tuple, kept in the call record
AnalyzeWordsWithApostrophe ==
    /\ pc = "ready"
    /\ \E r \in analyze_words_with_apostrophe(word) :
          out' = Returned("tuple", NoValue,
                          <<Call("analyze_words_with_apostrophe", Str(word), r.ret)>> \o r.calls)
    /\ pc' = "analyze_words_with_apostrophe"
    /\ UNCHANGED <<use_cache, use_unidentified_token_analyzer, word, obj, consumers, correct>>

Next == Analyze \/ AnalyzeWordsWithApostrophe

Spec == Init /\ [][Next]_vars

(* ----------------- consumers of one WordAnalysis object ----------------- *)
Consumers == {"c1", "c2"}

\* the strings a WordAnalysis is constructed with
Inputs == {<<>>, <<"a">>, <<"A", ".">>}

\* A WordAnalysis as its constructor leaves it (EMPTY_INPUT_RESULT among
\* them), handed to consumers that have not started their loops
InitWordAnalysis ==
    /\ use_cache = Builder_use_dynamic_cache
    /\ use_unidentified_token_analyzer = Builder_use_unidentifiedTokenAnalyzer
    /\ pc = "none"
    /\ word = <<>>
    /\ out = Raised("none", <<>>)
    /\ obj \in { WordAnalysis(i, r, n) : i \in Inputs, r \in ParseSeqs, n \in {None, <<"a">>} }
    /\ consumers = [c \in Consumers |-> [pc |-> "start", got |-> <<>>]]
    /\ correct = <<>>

\* `for x in obj`: iter(obj) once ...
Iter(c) ==
    /\ consumers[c].pc = "start"
    /\ obj' = WordAnalysis_iter(obj)
    /\ consumers' = [consumers EXCEPT ![c].pc = "loop"]
    /\ UNCHANGED <<use_cache, use_unidentified_token_analyzer, pc, word, out, correct>>

\* ... then next(obj) until StopIteration
NextItem(c) ==
    /\ consumers[c].pc = "loop"
    /\ LET r == WordAnalysis_next(obj)
       IN  /\ obj' = r.self
           /\ consumers' = [consumers EXCEPT
                              ![c].pc = IF r.stop THEN "done" ELSE "loop",
                              ![c].got = consumers[c].got \o r.result]
    /\ UNCHANGED <<use_cache, use_unidentified_token_analyzer, pc, word, out, correct>>

IsCorrect ==
    /\ obj # NoValue
    /\ correct = <<>>
    /\ correct' = <<is_correct(obj)>>
    /\ UNCHANGED <<use_cache, use_unidentified_token_analyzer, pc, word, out, obj, consumers>>

NextWordAnalysis ==
    \/ \E c \in Consumers : Iter(c)
    \/ \E c \in Consumers : NextItem(c)
    \/ IsCorrect

SpecWordAnalysis == InitWordAnalysis /\ [][NextWordAnalysis]_vars

(* ------------------------------ claims ---------------------------------- *)
\* C1: analyze("") with the cache disabled returns the shared sentinel
\* EMPTY_INPUT_RESULT (the same object, input "" and no candidates) and does
\* not raise.
C1_EmptyStringReturnsSentinel ==
    (pc = "analyze" /\ ~use_cache /\ word = <<>>) =>
        /\ out.exc = "none"
        /\ out.ref = "EMPTY_INPUT_RESULT"
        /\ out.value.inp = <<>>
        /\ out.value.analysis_results = <<>>

\* C2: with the cache disabled, analyze returns for every string and every
\* setting of the fallback option a WordAnalysis whose normalized_input is not
\* None and whose candidates are a sequence; it never raises.
C2_AnalyzeNeverRaises ==
    (pc = "analyze" /\ ~use_cache) =>
        /\ out.exc = "none"
        /\ out.ref \in {"new", "EMPTY_INPUT_RESULT"}
        /\ out.value.normalized_input # None
        /\ Len(out.value.analysis_results) >= 0

\* C3: a non-empty word that the tokenizer does not turn into exactly one
\* token comes back with input and normalized_input both the raw word and no
\* candidates, and neither analyzer is invoked.
C3_MultiTokenShortCircuit ==
    (pc = "analyze" /\ ~use_cache /\ Len(word) > 0) =>
        /\ Len(out.calls) > 0
        /\ out.calls[1].fn = "tokenizer.tokenize"
        /\ out.calls[1].arg = Str(word)
        /\ Len(out.calls[1].ret) # 1 =>
              /\ out.exc = "none"
              /\ out.ref = "new"
              /\ out.value.inp = word
              /\ out.value.normalized_input = word
              /\ out.value.analysis_results = <<>>
              /\ Len(out.calls) = 1

C3_Witness ==
    /\ pc = "analyze"
    /\ ~use_cache
    /\ word = <<"A", ".">>
    /\ normalize_for_analysis(word) # word
    /\ Len(out.calls) = 1
    /\ Len(out.calls[1].ret) = 2
    /\ out.value.normalized_input = word

\* C8: with the cache option on, every analyze call fails at once with
\* NotImplementedError, before the tokenizer or an analyzer is invoked, returns
\* nothing and leaves the instance as it was; with the option off (the Builder
\* default) analyze never takes the cache path.
C8_CacheFailsFast ==
    /\ [](pc = "analyze" =>
            /\ use_cache => out = Raised("NotImplementedError", <<>>)
            /\ ~use_cache => out.exc # "NotImplementedError"
            /\ use_cache = Builder_use_dynamic_cache => out.exc # "NotImplementedError")
    /\ [][/\ use_cache' = use_cache
          /\ use_unidentified_token_analyzer' = use_unidentified_token_analyzer]_vars

C8_Witness ==
    /\ pc = "analyze"
    /\ use_cache
    /\ Len(word) > 0
    /\ out.exc = "NotImplementedError"
    /\ out.calls = <<>>

\* C4: analyze never returns a lone analysis whose root item is the unknown
\* marker: when the stage that produced the candidates (the fallback if it
\* ran, else the rule-based/apostrophe stage) produced exactly one analysis
\* with an unknown root, the returned collection is empty; any other
\* collection is returned unchanged, in the same order.
C4_LoneUnknownSuppressed ==
    (pc = "analyze" /\ out.exc = "none") =>
        LET res == out.value.analysis_results
            n == Len(out.calls)
        IN  /\ ~(Len(res) = 1 /\ res[1].item.unknown)
            /\ n >= 2 =>
                 LET produced == IF out.calls[n].fn = "unidentified_token_analyzer.analyze"
                                 THEN out.calls[n].ret
                                 ELSE out.calls[2].ret
                 IN  res = IF Len(produced) = 1 /\ produced[1].item.unknown
                           THEN <<>>
                           ELSE produced

C4_Witness ==
    /\ pc = "analyze"
    /\ out.exc = "none"
    /\ Len(out.calls) = 3
    /\ out.calls[3].fn = "unidentified_token_analyzer.analyze"
    /\ Len(out.calls[3].ret) = 1
    /\ out.calls[3].ret[1].item.unknown
    /\ out.value.analysis_results = <<>>

\* C5: in an analyze call on a word of one token whose normalized form is not
\* empty, the unidentified-token analyzer is invoked iff the preceding stage
\* (rule-based analyzer, or splitter for a word with an apostrophe) returned
\* nothing and use_unidentified_token_analyzer is set; at most once, after
\* that stage, with the original token. With the fallback off, a word for
\* which the stage returns nothing gets no candidates.
C5_FallbackOnlyWhenEmpty ==
    (/\ pc = "analyze"
     /\ Len(out.calls) >= 1
     /\ Len(out.calls[1].ret) = 1
     /\ Len(normalize_for_analysis(out.calls[1].ret[1].content)) > 0) =>
        LET n == Len(out.calls)
            token == out.calls[1].ret[1]
            fallbacks == {i \in 1..n : out.calls[i].fn = "unidentified_token_analyzer.analyze"}
        IN  /\ n >= 2
            /\ out.calls[2].fn \in {"analyzer.analyze", "analyze_words_with_apostrophe"}
            /\ (fallbacks # {}) <=>
                   (Len(out.calls[2].ret) = 0 /\ use_unidentified_token_analyzer)
            /\ Cardinality(fallbacks) <= 1
            /\ \A i \in fallbacks :
                   /\ i = n
                   /\ i > 2
                   /\ out.calls[i].arg = token
            /\ (Len(out.calls[2].ret) = 0 /\ ~use_unidentified_token_analyzer) =>
                   out.value.analysis_results = <<>>

C5_Witness ==
    /\ pc = "analyze"
    /\ use_unidentified_token_analyzer
    /\ Len(out.calls) = 4
    /\ out.calls[2].fn = "analyze_words_with_apostrophe"
    /\ Len(out.calls[3].ret) > 0
    /\ out.calls[4].fn = "unidentified_token_analyzer.analyze"
    /\ out.calls[4].arg = out.calls[1].ret[1]
    /\ Len(out.value.analysis_results) = 2

C7_EmptyForEdgeApostrophe ==
    \A i \in 1..Len(out.calls) :
        LET w == out.calls[i].arg.content
        IN  (/\ out.calls[i].fn = "analyze_words_with_apostrophe"
             /\ normalize_for_analysis(w) = w
             /\ \/ ~contains_apostrophe(w)
                \/ w[1] = APOSTROPHE
                \/ w[Len(w)] = APOSTROPHE) =>
                /\ out.exc = "none"
                /\ out.calls[i].ret = <<>>

\* C7 (amended): for every normalized word with no apostrophe, or whose first
\* apostrophe is its first or its last character, the splitter returns the
\* empty collection, without invoking the analyzer and without raising.
C7_EmptyForFirstApostropheAtEdge ==
    \A i \in 1..Len(out.calls) :
        LET w == out.calls[i].arg.content
            first == {k \in 1..Len(w) : w[k] = APOSTROPHE /\ \A j \in 1..(k - 1) : w[j] # APOSTROPHE}
        IN  (/\ out.calls[i].fn = "analyze_words_with_apostrophe"
             /\ normalize_for_analysis(w) = w
             /\ first \subseteq {1, Len(w)}) =>
                /\ out.exc = "none"
                /\ out.calls[i].ret = <<>>
                /\ \A j \in (i + 1)..Len(out.calls) : out.calls[j].fn # "analyzer.analyze"

C7_Witness ==
    /\ pc = "analyze_words_with_apostrophe"
    /\ word = <<"a", "a", APOSTROPHE>>
    /\ out.exc = "none"
    /\ out.calls = <<Call("analyze_words_with_apostrophe", Str(word), <<>>)>>

\* C9: is_correct() is true iff the candidate collection is not empty and the
\* root item of its first candidate is not the unknown marker; it is false for
\* the empty collection and for EMPTY_INPUT_RESULT, and later candidates do
\* not matter.
C9_IsCorrect ==
    correct # <<>> =>
        /\ correct[1] <=> (/\ obj.analysis_results # <<>>
                           /\ ~obj.analysis_results[1].item.unknown)
        /\ obj.analysis_results = <<>> => ~correct[1]
        /\ [obj EXCEPT !.index = 0] = EMPTY_INPUT_RESULT => ~correct[1]

C9_Witness ==
    /\ correct = <<TRUE>>
    /\ Len(obj.analysis_results) = 2
    /\ obj.analysis_results[2].item.unknown

\* C10: a WordAnalysis is immutable, so when two consumers iterate the same
\* object with their __iter__/__next__ steps interleaved in any order, each
\* receives every candidate exactly once, in stored order, and then
\* StopIteration.
C10_EachConsumerReceivesAll ==
    \A c \in Consumers :
        consumers[c].pc = "done" => consumers[c].got = obj.analysis_results

====
